---- MODULE Spec2Model ----
(***************************************************************************)
(* p360 decision engine: calculateBaseline, compareToBaseline and          *)
(* determineDecisionPhase (src/src/baselineCalculator.ts,                  *)
(* src/src/decisionEngine.ts) over a caller-supplied history of            *)
(* DailyMetrics.                                                           *)
(*                                                                         *)
(* Numbers.  Readings are non-negative numbers held as integers that are   *)
(* multiples of 40, so that the mean of two readings (a multiple of 20)    *)
(* and 5% of a baseline are integers and every division below is exact.    *)
(* The JavaScript value null of a reading is the integer NULL (-1, outside *)
(* the readings); the null of a verdict is the string NoVerdict.           *)
(*                                                                         *)
(* State.  metrics is the caller's history array, call the function the    *)
(* caller ran last, result what it returned or threw, args the arguments   *)
(* of a call that does not take the history (compareToBaseline,            *)
(* WhoopAdapter.toDailyMetrics of src/src/whoopAdapter.ts), or the copy of *)
(* its history and the earlier results a caller kept to compare calls.     *)
(***************************************************************************)
EXTENDS Integers, Sequences, FiniteSets, TLC

VARIABLES metrics, call, result, args

vars == <<metrics, call, result, args>>

\* ------------------------------------------------------------------ bounds
\* longest history the caller builds in Spec
MaxLen == 4
\* longest history of which the caller keeps a copy in SpecKept
MaxKeptLen == 3
\* results the caller keeps in SpecKept
MaxKept == 2
\* records older than the 14-record window the caller builds in SpecWindow
MaxOld == 1

\* --------------------------------------------------------------- data model
NULL == -1

NoVerdict == "null"

Readings == {400, 1200}

MetricNames == {"hrv", "sleep", "load"}

\* metricsToCheck, in the order of the source array
metricsToCheck == <<"hrv", "sleep", "load">>

DailyMetrics(d, h, s, l) == [date |-> d, hrv |-> h, sleep |-> s, load |-> l]

\* the readings a caller may supply for one day (date filled in on append)
Records ==
    { DailyMetrics(0, h, s, l) : h \in Readings, s \in Readings, l \in Readings }
    \cup { DailyMetrics(0, NULL, NULL, NULL),
           DailyMetrics(0, NULL, 400, 400),
           DailyMetrics(0, 400, NULL, 400),
           DailyMetrics(0, 400, 400, NULL) }

\* the two kinds of day used to build the long histories of SpecWindow
WindowRecords ==
    { DailyMetrics(0, 400, 400, 1200), DailyMetrics(0, 1200, 1200, 400) }

\* ------------------------------------------------------------ JS primitives
Max(a, b) == IF a >= b THEN a ELSE b

Min(a, b) == IF a <= b THEN a ELSE b

\* Array.prototype.slice(-n): the trailing n elements, all of them when the
\* array is shorter; slice(-0) is slice(0), the whole array
SliceLast(arr, n) ==
    IF n = 0 THEN arr
    ELSE SubSeq(arr, Max(Len(arr) - n, 0) + 1, Len(arr))

\* mutant of FilterNotNull: an absent reading is kept as a zero
FilterNotNull_AsZero(arr) ==
    [i \in 1..Len(arr) |-> IF arr[i] # NULL THEN arr[i] ELSE 0]

\* .filter(v => v !== null)
FilterNotNull(arr) == SelectSeq(arr, LAMBDA v : v # NULL)

\* .sort((a, b) => a - b): ascending numeric order
SortAscending(arr) == SortSeq(arr, LAMBDA a, b : a < b)

Throw(msg) == [threw |-> TRUE, error |-> msg]

Return(v) == [threw |-> FALSE, value |-> v]

\* -------------------------------------------------------- baselineCalculator
EmptyDataset == "No data available."

MaxWindow == 14

MinWindow == 7

DefaultTolerancePercent == 5

\* mutant of IsEmpty: the guard is missing
IsEmpty_Never(ms) == FALSE

\* if (metrics.length === 0)
IsEmpty(ms) == Len(ms) = 0

\* mutant of WindowOf: the window ends before yesterday
WindowOf_BeforeYesterday(ms) ==
    LET recentMetrics == SliceLast(SubSeq(ms, 1, Max(Len(ms) - 2, 0)), MaxWindow)
        count == Max(MinWindow, Min(MaxWindow, Len(recentMetrics)))
    IN  SliceLast(recentMetrics, count)

\* mutant of WindowOf: the whole history is used
WindowOf_WholeHistory(ms) == ms

\* const values = recentMetrics.slice(-count)
WindowOf(ms) ==
    LET recentMetrics == SliceLast(ms, MaxWindow)
        count == Max(MinWindow, Min(MaxWindow, Len(recentMetrics)))
    IN  SliceLast(recentMetrics, count)

\* values.map(m => m[name]).filter(v => v !== null).sort((a, b) => a - b)
MetricValues(values, name) ==
    SortAscending(FilterNotNull([i \in 1..Len(values) |-> values[i][name]]))

\* mutant of median: the element before the middle one for an odd length
median_OffByOne(arr) ==
    IF Len(arr) = 0 THEN NULL
    ELSE LET mid == Len(arr) \div 2
         IN  IF Len(arr) % 2 = 0
             THEN (arr[mid] + arr[mid + 1]) \div 2
             ELSE arr[Max(mid, 1)]

\* the inner function median; arr is 1-indexed here, so the source's
\* arr[mid - 1], arr[mid] are arr[mid], arr[mid + 1]
median(arr) ==
    IF Len(arr) = 0 THEN NULL
    ELSE LET mid == Len(arr) \div 2
         IN  IF Len(arr) % 2 = 0
             THEN (arr[mid] + arr[mid + 1]) \div 2
             ELSE arr[mid + 1]

\* mutant of OrZero: the ?? 0 fallback is missing
OrZero_Missing(v) == v

\* median(xs) ?? 0
OrZero(v) == IF v = NULL THEN 0 ELSE v

calculateBaseline(ms) ==
    IF IsEmpty(ms) THEN Throw(EmptyDataset)
    ELSE LET values == WindowOf(ms)
         IN  Return([hrv   |-> OrZero(median(MetricValues(values, "hrv"))),
                     sleep |-> OrZero(median(MetricValues(values, "sleep"))),
                     load  |-> OrZero(median(MetricValues(values, "load")))])

\* The arrays of one call, by reference: a heap is the sequence of the
\* arrays that exist, heap[1] is the caller's array. slice, map and filter
\* return a new array; sort sorts the array it is called on, in place.
Alloc(heap, arr) == Append(heap, arr)

\* mutant of MetricValuesOn: no copies, the caller's array is sorted by the
\* metric (metrics.sort((a, b) => a[name] - b[name]))
MetricValuesOn_CallerInPlace(heap, values, name) ==
    [heap EXCEPT ![1] = SortSeq(@, LAMBDA a, b : a[name] < b[name])]

\* values.map(m => m[name]).filter(v => v !== null).sort((a, b) => a - b)
\* on the array with reference values: the heap afterwards
MetricValuesOn(heap, values, name) ==
    LET mapped == Alloc(heap, [i \in 1..Len(heap[values]) |-> heap[values][i][name]])
        filtered == Alloc(mapped, FilterNotNull(mapped[Len(mapped)]))
    IN  [filtered EXCEPT ![Len(filtered)] = SortAscending(@)]

\* the heap when calculateBaseline(ms) returns
HeapAfterBaseline(ms) ==
    LET caller == <<ms>>
        recentMetrics == Alloc(caller, SliceLast(caller[1], MaxWindow))
        count == Max(MinWindow, Min(MaxWindow, Len(recentMetrics[2])))
        values == Alloc(recentMetrics, SliceLast(recentMetrics[2], count))
        hrvValues == MetricValuesOn(values, 3, "hrv")
        sleepValues == MetricValuesOn(hrvValues, 3, "sleep")
    IN  MetricValuesOn(sleepValues, 3, "load")

\* the caller's array when calculateBaseline(ms) returns or throws
ArrayAfterBaseline(ms) ==
    IF IsEmpty(ms) THEN ms ELSE HeapAfterBaseline(ms)[1]

\* JavaScript undefined, the value of an omitted argument
UNDEFINED == -2

\* tolerancePercent: number = 5
ToleranceArg(tolerancePercent) ==
    IF tolerancePercent = UNDEFINED THEN DefaultTolerancePercent
    ELSE tolerancePercent

\* mutant of compareToBaseline: no null test, null compares as the number 0
compareToBaseline_NullAsZero(value, baseline, tolerancePercent) ==
    LET v == IF value = NULL THEN 0 ELSE value
        tolerance == (baseline * tolerancePercent) \div 100
    IN  IF v < baseline - tolerance THEN "lower"
        ELSE IF v > baseline + tolerance THEN "higher"
        ELSE "within"

\* mutant of compareToBaseline: value <= lowerBound
compareToBaseline_LowerInclusive(value, baseline, tolerancePercent) ==
    IF value = NULL THEN NoVerdict
    ELSE LET tolerance == (baseline * tolerancePercent) \div 100
         IN  IF value <= baseline - tolerance THEN "lower"
             ELSE IF value > baseline + tolerance THEN "higher"
             ELSE "within"

\* mutant of compareToBaseline: value >= upperBound
compareToBaseline_UpperInclusive(value, baseline, tolerancePercent) ==
    IF value = NULL THEN NoVerdict
    ELSE LET tolerance == (baseline * tolerancePercent) \div 100
         IN  IF value < baseline - tolerance THEN "lower"
             ELSE IF value >= baseline + tolerance THEN "higher"
             ELSE "within"

\* tolerance = baseline * (tolerancePercent / 100): exact, the baselines
\* being multiples of 20 and the percentages multiples of 5
compareToBaseline(value, baseline, tolerancePercent) ==
    IF value = NULL THEN NoVerdict
    ELSE LET tolerance == (baseline * tolerancePercent) \div 100
             lowerBound == baseline - tolerance
             upperBound == baseline + tolerance
         IN  IF value < lowerBound THEN "lower"
             ELSE IF value > upperBound THEN "higher"
             ELSE "within"

\* ------------------------------------------------------------ decisionEngine
InsufficientHistory == "At least 2 days of data required."

ObserveReason == "Observing current state."

\* the ComparisonResult of one day against the baseline
ComparisonOf(day, baseline) ==
    [hrv   |-> compareToBaseline(day.hrv, baseline.hrv, DefaultTolerancePercent),
     sleep |-> compareToBaseline(day.sleep, baseline.sleep, DefaultTolerancePercent),
     load  |-> compareToBaseline(day.load, baseline.load, DefaultTolerancePercent)]

\* mutant of TooShort: the guard misses the empty history
TooShort_OnlyOne(ms) == Len(ms) = 1

\* if (metrics.length < 2)
TooShort(ms) == Len(ms) < 2

\* mutant of ConsecutiveMetrics: the direction is not looked at, a metric
\* outside baseline with the same verdict on both days passes
ConsecutiveMetrics_AnyDirection(todayComparison, yesterdayComparison, dir) ==
    SelectSeq(metricsToCheck,
              LAMBDA metric :
                  /\ todayComparison[metric] \in {"lower", "higher"}
                  /\ yesterdayComparison[metric] = todayComparison[metric])

\* mutant of ConsecutiveMetrics: a null verdict agrees with any direction
ConsecutiveMetrics_NullAgrees(todayComparison, yesterdayComparison, dir) ==
    SelectSeq(metricsToCheck,
              LAMBDA metric :
                  /\ todayComparison[metric] \in {dir, NoVerdict}
                  /\ yesterdayComparison[metric] \in {dir, NoVerdict})

\* metricsToCheck.filter(metric => both days non-null and both equal to dir):
\* the metrics that pass, in source order
ConsecutiveMetrics(todayComparison, yesterdayComparison, dir) ==
    SelectSeq(metricsToCheck,
              LAMBDA metric :
                  /\ todayComparison[metric] # NoVerdict
                  /\ yesterdayComparison[metric] # NoVerdict
                  /\ todayComparison[metric] = dir
                  /\ yesterdayComparison[metric] = dir)

\* mutant of Triggered: all three metrics are required
Triggered_AllThree(consecutiveLower, consecutiveHigher) ==
    consecutiveLower >= 3 \/ consecutiveHigher >= 3

\* mutant of Triggered: only the lower count is looked at
Triggered_LowerOnly(consecutiveLower, consecutiveHigher) ==
    consecutiveLower >= 2

\* if (consecutiveLower >= 2 || consecutiveHigher >= 2)
Triggered(consecutiveLower, consecutiveHigher) ==
    consecutiveLower >= 2 \/ consecutiveHigher >= 2

\* const direction = consecutiveLower >= 2 ? 'lower' : 'higher'
DirectionOf(consecutiveLower, consecutiveHigher) ==
    IF consecutiveLower >= 2 THEN "lower" ELSE "higher"

\* mutant of CountOf: the count of the other direction
CountOf_Swapped(direction, consecutiveLower, consecutiveHigher) ==
    IF direction = "lower" THEN consecutiveHigher ELSE consecutiveLower

\* const count = direction === 'lower' ? consecutiveLower : consecutiveHigher
CountOf(direction, consecutiveLower, consecutiveHigher) ==
    IF direction = "lower" THEN consecutiveLower ELSE consecutiveHigher

\* the template literal of the reason
ReasonText(direction, count) ==
    IF direction = "lower"
    THEN ToString(count)
           \o " recovery signals have been outside baseline for 2 consecutive days."
    ELSE ToString(count)
           \o " load signals have been outside baseline for 2 consecutive days."

\* mutant of ReturnedComparison: yesterday's verdicts are returned
ReturnedComparison_Yesterday(todayComparison, yesterdayComparison) ==
    yesterdayComparison

\* the comparison field of the value returned on either path
ReturnedComparison(todayComparison, yesterdayComparison) == todayComparison

\* the caller's array when determineDecisionPhase(ms) returns or throws:
\* the function itself only reads it
ArrayAfterDecision(ms) ==
    IF TooShort(ms) THEN ms ELSE ArrayAfterBaseline(ms)

determineDecisionPhase(ms) ==
    IF TooShort(ms) THEN Throw(InsufficientHistory)
    ELSE LET b == calculateBaseline(ms)
         IN  IF b.threw THEN b
             ELSE LET baseline == b.value
                      today == ms[Len(ms)]
                      yesterday == ms[Len(ms) - 1]
                      todayComparison == ComparisonOf(today, baseline)
                      yesterdayComparison == ComparisonOf(yesterday, baseline)
                      consecutiveLower ==
                          Len(ConsecutiveMetrics(todayComparison,
                                                 yesterdayComparison, "lower"))
                      consecutiveHigher ==
                          Len(ConsecutiveMetrics(todayComparison,
                                                 yesterdayComparison, "higher"))
                  IN  IF Triggered(consecutiveLower, consecutiveHigher)
                      THEN LET direction ==
                                   DirectionOf(consecutiveLower, consecutiveHigher)
                               count ==
                                   CountOf(direction, consecutiveLower,
                                           consecutiveHigher)
                           IN  Return([phase |-> "CONSIDER_ADJUSTMENT",
                                       comparison |->
                                           ReturnedComparison(todayComparison,
                                                              yesterdayComparison),
                                       reason |-> ReasonText(direction, count)])
                      ELSE Return([phase |-> "OBSERVE",
                                   comparison |->
                                       ReturnedComparison(todayComparison,
                                                          yesterdayComparison),
                                   reason |-> ObserveReason])

\* ------------------------------------------------------------- state machine
NoResult == Return("none")

\* no arguments besides the history
NoArgs == <<>>

Init ==
    /\ metrics = <<>>
    /\ call = "none"
    /\ result = NoResult
    /\ args = NoArgs

\* the caller appends the next day's record to the history (ascending dates)
AddRecord ==
    /\ call = "none"
    /\ Len(metrics) < MaxLen
    /\ \E r \in Records :
           metrics' = Append(metrics, [r EXCEPT !.date = Len(metrics) + 1])
    /\ UNCHANGED <<call, result, args>>

\* the caller appends the next day's record to a long history
AddWindowRecord ==
    /\ call = "none"
    /\ Len(metrics) < MaxWindow + MaxOld
    /\ \E r \in WindowRecords :
           metrics' = Append(metrics, [r EXCEPT !.date = Len(metrics) + 1])
    /\ UNCHANGED <<call, result, args>>

\* the caller runs determineDecisionPhase(metrics)
Decide ==
    /\ call = "none"
    /\ call' = "determineDecisionPhase"
    /\ result' = determineDecisionPhase(metrics)
    /\ metrics' = ArrayAfterDecision(metrics)
    /\ UNCHANGED args

\* the caller runs calculateBaseline(metrics)
ComputeBaseline ==
    /\ call = "none"
    /\ call' = "calculateBaseline"
    /\ result' = calculateBaseline(metrics)
    /\ metrics' = ArrayAfterBaseline(metrics)
    /\ UNCHANGED args

Next == AddRecord \/ Decide \/ ComputeBaseline

Spec == Init /\ [][Next]_vars

NextWindow == AddWindowRecord \/ Decide \/ ComputeBaseline

SpecWindow == Init /\ [][NextWindow]_vars

\* ------------------------------------------------------------ repeated calls
\* the days of the histories a caller keeps a copy of
KeptRecords ==
    { DailyMetrics(0, 400, 400, 1200), DailyMetrics(0, 1200, 1200, 400),
      DailyMetrics(0, NULL, 400, 400) }

\* the histories of up to MaxKeptLen days, dated 1, 2, ...
KeptHistories ==
    UNION { { [i \in 1..n |-> [days[i] EXCEPT !.date = i]] :
                days \in [1..n -> KeptRecords] } : n \in 0..MaxKeptLen }

\* the caller holds a history and a copy of it, and has kept no result yet
InitKept ==
    /\ metrics \in KeptHistories
    /\ call = "none"
    /\ result = NoResult
    /\ args = [before |-> metrics, kept |-> <<>>]

\* the caller keeps what the last call returned or threw and is ready to
\* call again
KeepResult ==
    /\ call # "none"
    /\ Len(args.kept) < MaxKept
    /\ args' = [args EXCEPT !.kept = Append(@, [call |-> call, result |-> result])]
    /\ call' = "none"
    /\ result' = NoResult
    /\ UNCHANGED metrics

NextKept == Decide \/ ComputeBaseline \/ KeepResult

SpecKept == InitKept /\ [][NextKept]_vars

\* ---------------------------------------------- compareToBaseline on its own
\* the values, baselines and percentages a caller passes: readings on, next
\* to and away from the band edges of the baselines, with negative ones too
ClassifyValues ==
    {NULL, -400, -20, 0, 1, 18, 19, 20, 21, 22, 360, 379, 380, 381, 400,
     419, 420, 421, 440, 441}

ClassifyBaselines == {-400, 0, 20, 400}

ClassifyTolerances == {UNDEFINED, -5, 0, 5, 10}

InitClassify ==
    /\ metrics = <<>>
    /\ call = "none"
    /\ result = NoResult
    /\ args \in [value : ClassifyValues,
                 baseline : ClassifyBaselines,
                 tolerancePercent : ClassifyTolerances]

\* the caller runs compareToBaseline(value, baseline[, tolerancePercent])
Classify ==
    /\ call = "none"
    /\ call' = "compareToBaseline"
    /\ result' = Return(compareToBaseline(args.value, args.baseline,
                                          ToleranceArg(args.tolerancePercent)))
    /\ UNCHANGED <<metrics, args>>

NextClassify == Classify

SpecClassify == InitClassify /\ [][NextClassify]_vars

\* ------------------------------------------------------------------ mock data
\* a reading given in tenths (47 is 470, 7.8 is 78), as a multiple of 40
Tenths(x) == 40 * x

\* mockDailyMetrics; the date is the day of January 2024
mockDailyMetrics ==
    << DailyMetrics(1,  Tenths(450), Tenths(75), Tenths(125)),
       DailyMetrics(2,  Tenths(480), Tenths(80), Tenths(142)),
       DailyMetrics(3,  Tenths(460), Tenths(78), Tenths(138)),
       DailyMetrics(4,  Tenths(500), Tenths(82), Tenths(115)),
       DailyMetrics(5,  Tenths(470), Tenths(79), Tenths(151)),
       DailyMetrics(6,  Tenths(490), Tenths(81), Tenths(132)),
       DailyMetrics(7,  Tenths(480), Tenths(80), Tenths(140)),
       DailyMetrics(8,  Tenths(460), Tenths(77), Tenths(128)),
       DailyMetrics(9,  Tenths(510), Tenths(83), Tenths(110)),
       DailyMetrics(10, Tenths(470), Tenths(76), Tenths(145)),
       DailyMetrics(11, Tenths(420), Tenths(72), Tenths(160)),
       DailyMetrics(12, Tenths(400), Tenths(70), Tenths(165)),
       DailyMetrics(13, Tenths(380), Tenths(68), Tenths(170)) >>

\* the mock history up to "2 days ago"
InitMock ==
    /\ metrics = SubSeq(mockDailyMetrics, 1, Len(mockDailyMetrics) - 2)
    /\ call = "none"
    /\ result = NoResult
    /\ args = NoArgs

\* one of the last two days is added, with the readings of any mock day
AddMockRecord ==
    /\ call = "none"
    /\ Len(metrics) < Len(mockDailyMetrics)
    /\ \E i \in 1..Len(mockDailyMetrics) :
           metrics' = Append(metrics,
                             [mockDailyMetrics[i] EXCEPT !.date = Len(metrics) + 1])
    /\ UNCHANGED <<call, result, args>>

NextMock == AddMockRecord \/ Decide \/ ComputeBaseline

SpecMock == InitMock /\ [][NextMock]_vars

\* --------------------------------------------------------------- whoopAdapter
\* total number of source records (recoveries, sleeps, workout days) the
\* caller passes to toDailyMetrics
MaxSourceRecords == 3

\* the local calendar days the timestamps fall on: 30 and 31 January and
\* 1 February 2024, each as the fields of its YYYY-MM-DD string
Calendar ==
    << [year |-> 2024, month |-> 1, day |-> 30],
       [year |-> 2024, month |-> 1, day |-> 31],
       [year |-> 2024, month |-> 2, day |-> 1] >>

\* created_at / start timestamps, in hours of local time after the start of
\* the first calendar day: two on the first day, one on each of the others
Timestamps == {5, 20, 30, 50}

HoursPerDay == 24

\* formatDate: the local calendar day of a timestamp, as year-month-day
formatDate(dateString) == Calendar[dateString \div HoursPerDay + 1]

\* a.localeCompare(b) on two YYYY-MM-DD strings: the fields have fixed
\* width, so the strings compare field by field, year first
localeCompare(a, b) ==
    IF a.year # b.year THEN (IF a.year < b.year THEN -1 ELSE 1)
    ELSE IF a.month # b.month THEN (IF a.month < b.month THEN -1 ELSE 1)
    ELSE IF a.day # b.day THEN (IF a.day < b.day THEN -1 ELSE 1)
    ELSE 0

\* extractHRV: hrv_rmssd_milli as it is, null when it is null
extractHRV(recovery) == recovery.hrv_rmssd_milli

MilliPerTenthOfHour == 360000

\* extractSleep: null for a missing or zero total_sleep_time_milli, else
\* Math.round(hours * 10) / 10, a number of tenths of an hour
extractSleep(sleep) ==
    IF sleep.total_sleep_time_milli = NULL \/ sleep.total_sleep_time_milli = 0
    THEN NULL
    ELSE Tenths((2 * sleep.total_sleep_time_milli + MilliPerTenthOfHour)
                    \div (2 * MilliPerTenthOfHour))

\* Math.max(...strains) of a non-empty array
RECURSIVE MaxOf(_)
MaxOf(strains) ==
    IF Len(strains) = 1 THEN strains[1]
    ELSE Max(strains[1], MaxOf(Tail(strains)))

\* extractLoad: the largest non-null strain of the day's workouts, null
\* when there is no workout or no strain
extractLoad(workouts) ==
    IF Len(workouts) = 0 THEN NULL
    ELSE LET strains == FilterNotNull(workouts)
         IN  IF Len(strains) = 0 THEN NULL ELSE MaxOf(strains)

\* mutant of NewEntry: the metrics of a new entry start at 0
NewEntry_Zero(date) == DailyMetrics(date, 0, 0, 0)

\* { date, hrv: null, sleep: null, load: null }
NewEntry(date) == DailyMetrics(date, NULL, NULL, NULL)

\* if (!metricsMap.has(date)) metricsMap.set(date, {...});
\* metricsMap.get(date)![field] = v; a Map keeps its keys in insertion order
SetMetric(metricsMap, date, field, v) ==
    LET has == \E i \in 1..Len(metricsMap) : metricsMap[i].date = date
        map == IF has THEN metricsMap ELSE Append(metricsMap, NewEntry(date))
    IN  [i \in 1..Len(map) |->
             IF map[i].date = date THEN [map[i] EXCEPT ![field] = v]
             ELSE map[i]]

\* recoveries.forEach(...)
RECURSIVE ProcessRecoveries(_, _)
ProcessRecoveries(metricsMap, recoveries) ==
    IF Len(recoveries) = 0 THEN metricsMap
    ELSE ProcessRecoveries(
             SetMetric(metricsMap, formatDate(Head(recoveries).created_at),
                       "hrv", extractHRV(Head(recoveries))),
             Tail(recoveries))

\* sleeps.forEach(...)
RECURSIVE ProcessSleeps(_, _)
ProcessSleeps(metricsMap, sleeps) ==
    IF Len(sleeps) = 0 THEN metricsMap
    ELSE ProcessSleeps(
             SetMetric(metricsMap, formatDate(Head(sleeps).start),
                       "sleep", extractSleep(Head(sleeps))),
             Tail(sleeps))

\* Object.entries(workouts).forEach(([date, dayWorkouts]) => ...)
RECURSIVE ProcessWorkouts(_, _)
ProcessWorkouts(metricsMap, entries) ==
    IF Len(entries) = 0 THEN metricsMap
    ELSE ProcessWorkouts(
             SetMetric(metricsMap, Head(entries).date,
                       "load", extractLoad(Head(entries).dayWorkouts)),
             Tail(entries))

\* mutant of SortByDate: the array is returned in the order of the map
SortByDate_MapOrder(metricsArray) == metricsArray

\* metricsArray.sort((a, b) => a.date.localeCompare(b.date))
SortByDate(metricsArray) ==
    SortSeq(metricsArray, LAMBDA a, b : localeCompare(a.date, b.date) < 0)

toDailyMetrics(recoveries, sleeps, workouts) ==
    SortByDate(ProcessWorkouts(
                   ProcessSleeps(ProcessRecoveries(<<>>, recoveries), sleeps),
                   workouts))

\* the source records a caller may pass
RecoveryResponses ==
    [created_at : Timestamps, hrv_rmssd_milli : {NULL, Tenths(450)}]

\* 27180000 ms is 7.55 h, which rounds to 7.6
SleepResponses ==
    [start : Timestamps, total_sleep_time_milli : {0, 27180000}]

\* the strains of one day's workouts
DayWorkouts ==
    { <<>>, <<NULL>>, <<Tenths(120), NULL, Tenths(150), Tenths(90)>> }

\* the keys of the workouts object, as formatDate writes them
WorkoutDates == { Calendar[i] : i \in 1..Len(Calendar) }

SourceRecords ==
    Len(args.recoveries) + Len(args.sleeps) + Len(args.workouts)

InitAdapter ==
    /\ metrics = <<>>
    /\ call = "none"
    /\ result = NoResult
    /\ args = [recoveries |-> <<>>, sleeps |-> <<>>, workouts |-> <<>>]

\* the caller gets one more recovery from the API
AddRecovery ==
    /\ call = "none"
    /\ SourceRecords < MaxSourceRecords
    /\ \E r \in RecoveryResponses :
           args' = [args EXCEPT !.recoveries = Append(@, r)]
    /\ UNCHANGED <<metrics, call, result>>

\* the caller gets one more sleep from the API
AddSleep ==
    /\ call = "none"
    /\ SourceRecords < MaxSourceRecords
    /\ \E s \in SleepResponses :
           args' = [args EXCEPT !.sleeps = Append(@, s)]
    /\ UNCHANGED <<metrics, call, result>>

\* the caller files the workouts of one more day under its date
AddWorkouts ==
    /\ call = "none"
    /\ SourceRecords < MaxSourceRecords
    /\ \E d \in WorkoutDates, w \in DayWorkouts :
           /\ \A i \in 1..Len(args.workouts) : args.workouts[i].date # d
           /\ args' = [args EXCEPT
                           !.workouts = Append(@, [date |-> d, dayWorkouts |-> w])]
    /\ UNCHANGED <<metrics, call, result>>

\* the caller runs WhoopAdapter.toDailyMetrics(recoveries, sleeps, workouts)
Convert ==
    /\ call = "none"
    /\ call' = "toDailyMetrics"
    /\ result' = Return(toDailyMetrics(args.recoveries, args.sleeps,
                                       args.workouts))
    /\ UNCHANGED <<metrics, args>>

NextAdapter == AddRecovery \/ AddSleep \/ AddWorkouts \/ Convert

SpecAdapter == InitAdapter /\ [][NextAdapter]_vars

\* ===================================================================== claims
\* vocabulary of the claims, stated on the history and by arithmetic

Decided == call = "determineDecisionPhase" /\ ~result.threw

BaselineComputed == call = "calculateBaseline" /\ ~result.threw

Today == metrics[Len(metrics)]

Yesterday == metrics[Len(metrics) - 1]

\* the baseline the engine computes for the history
ComputedBaseline == calculateBaseline(metrics).value

\* lower / within / higher with a 5% band: v < b - 5b/100 iff 100v < 95b
VerdictAgainst(v, b) ==
    IF v = NULL THEN NoVerdict
    ELSE IF 100 * v < 95 * b THEN "lower"
    ELSE IF 100 * v > 105 * b THEN "higher"
    ELSE "within"

\* the metrics whose verdict against baseline b is dir on both of the last
\* two days
BothDays(dir, b) ==
    { m \in MetricNames :
        /\ VerdictAgainst(Today[m], b[m]) = dir
        /\ VerdictAgainst(Yesterday[m], b[m]) = dir }

\* the metrics the engine's filter lets through for direction dir
Counted(dir, b) ==
    LET passed == ConsecutiveMetrics(ComparisonOf(Today, b),
                                     ComparisonOf(Yesterday, b), dir)
    IN  { passed[i] : i \in 1..Len(passed) }

\* C1: with at least 2 records the phase is CONSIDER_ADJUSTMENT exactly when
\* the consecutive-lower or the consecutive-higher count is >= 2; otherwise
\* it is OBSERVE with the reason "Observing current state."
C1_PhaseIffCount ==
    Decided =>
        LET b == ComputedBaseline
            lowerCount == Cardinality(BothDays("lower", b))
            higherCount == Cardinality(BothDays("higher", b))
        IN  /\ result.value.phase = "CONSIDER_ADJUSTMENT"
                   <=> (lowerCount >= 2 \/ higherCount >= 2)
            /\ ~(lowerCount >= 2 \/ higherCount >= 2)
                   => /\ result.value.phase = "OBSERVE"
                      /\ result.value.reason = "Observing current state."

\* only the higher count reaches 2
C1_Witness ==
    /\ Decided
    /\ Cardinality(BothDays("lower", ComputedBaseline)) < 2
    /\ Cardinality(BothDays("higher", ComputedBaseline)) >= 2
    /\ result.value.phase = "CONSIDER_ADJUSTMENT"

\* C2: a metric passes the consecutive-lower (-higher) filter only when its
\* reading is present and classified lower (higher) on both today and
\* yesterday; a metric absent on either day passes neither filter
C2_CountedOnlyWhenBothDays ==
    Decided =>
        LET b == ComputedBaseline
            countedLower == Counted("lower", b)
            countedHigher == Counted("higher", b)
            bothLower == BothDays("lower", b)
            bothHigher == BothDays("higher", b)
        IN  \A m \in MetricNames :
                /\ m \in countedLower =>
                       Today[m] # NULL /\ Yesterday[m] # NULL /\ m \in bothLower
                /\ m \in countedHigher =>
                       Today[m] # NULL /\ Yesterday[m] # NULL /\ m \in bothHigher
                /\ (Today[m] = NULL \/ Yesterday[m] = NULL) =>
                       m \notin countedLower /\ m \notin countedHigher

\* hrv absent today and lower yesterday, the other two lower on both days
C2_Witness ==
    /\ Decided
    /\ Today.hrv = NULL
    /\ VerdictAgainst(Yesterday.hrv, ComputedBaseline.hrv) = "lower"
    /\ Counted("lower", ComputedBaseline) = {"sleep", "load"}

\* C3: no formula; the counts are taken over three metrics and a metric has
\* one verdict per day, so no history makes both counts >= 2

\* C4: a CONSIDER_ADJUSTMENT reason is "<count> recovery signals ..." with the
\* consecutive-lower count when that count is >= 2, and otherwise
\* "<count> load signals ..." with the consecutive-higher count; it names no
\* metric
C4_ReasonTemplate ==
    (Decided /\ result.value.phase = "CONSIDER_ADJUSTMENT") =>
        LET b == ComputedBaseline
            lowerCount == Cardinality(BothDays("lower", b))
            higherCount == Cardinality(BothDays("higher", b))
        IN  result.value.reason =
                IF lowerCount >= 2
                THEN ToString(lowerCount)
                       \o " recovery signals have been outside baseline for 2 consecutive days."
                ELSE ToString(higherCount)
                       \o " load signals have been outside baseline for 2 consecutive days."

\* two signals, triggered by hrv and load, with sleep lower on both days
C4_Witness ==
    /\ Decided
    /\ BothDays("higher", ComputedBaseline) = {"hrv", "load"}
    /\ BothDays("lower", ComputedBaseline) = {"sleep"}
    /\ result.value.reason =
           "2 load signals have been outside baseline for 2 consecutive days."

\* C5: in both phases the returned comparison is the classification of the
\* last record against the computed baseline with the 5% band
C5_ComparisonIsToday ==
    Decided =>
        LET b == ComputedBaseline
        IN  \A m \in MetricNames :
                result.value.comparison[m] = VerdictAgainst(Today[m], b[m])

\* an adjustment is signalled and yesterday's verdict for load differs from
\* today's
C5_Witness ==
    /\ Decided
    /\ result.value.phase = "CONSIDER_ADJUSTMENT"
    /\ VerdictAgainst(Yesterday.load, ComputedBaseline.load) = "lower"
    /\ result.value.comparison.load = "higher"

\* C6: decide fails, with InsufficientHistory and nothing else, exactly when
\* the history has 0 or 1 records; with 2 or more it returns a result whose
\* phase is OBSERVE or CONSIDER_ADJUSTMENT
C6_InsufficientHistory ==
    call = "determineDecisionPhase" =>
        /\ result.threw <=> Len(metrics) \in {0, 1}
        /\ result.threw =>
               result = [threw |-> TRUE,
                         error |-> "At least 2 days of data required."]
        /\ ~result.threw =>
               result.value.phase \in {"OBSERVE", "CONSIDER_ADJUSTMENT"}

C6_Witness ==
    /\ call = "determineDecisionPhase"
    /\ Len(metrics) = 0
    /\ result.threw
    /\ result.error = InsufficientHistory

\* C7: computeBaseline fails with EmptyDataset exactly when the history is
\* empty; for a non-empty history, also one with no reading at all, it
\* returns a number for each of hrv, sleep and load
C7_EmptyDataset ==
    call = "calculateBaseline" =>
        /\ result.threw <=> Len(metrics) = 0
        /\ result.threw =>
               result = [threw |-> TRUE, error |-> "No data available."]
        /\ ~result.threw =>
               \A m \in MetricNames : result.value[m] \in Nat

\* a history of two or more days without a single reading
C7_Witness ==
    /\ BaselineComputed
    /\ Len(metrics) >= 2
    /\ \A i \in 1..Len(metrics) :
           \A m \in MetricNames : metrics[i][m] = NULL
    /\ \A m \in MetricNames : result.value[m] = 0

\* the positions of the trailing min(14, N) records of the history
Trailing == (Len(metrics) - Min(14, Len(metrics)) + 1)..Len(metrics)

\* the trailing positions that carry a reading of metric m
PresentIn(m) == { i \in Trailing : metrics[i][m] # NULL }

\* x is the k-th smallest of the present trailing readings of m
IsKthSmallest(m, x, k) ==
    /\ Cardinality({ i \in PresentIn(m) : metrics[i][m] < x }) < k
    /\ k <= Cardinality({ i \in PresentIn(m) : metrics[i][m] <= x })

\* b is the median of the present trailing readings of m
IsMedianOfPresent(m, b) ==
    LET n == Cardinality(PresentIn(m))
    IN  IF n % 2 = 1
        THEN \E i \in PresentIn(m) :
                 /\ metrics[i][m] = b
                 /\ IsKthSmallest(m, b, (n + 1) \div 2)
        ELSE \E i \in PresentIn(m) :
                 /\ IsKthSmallest(m, metrics[i][m], n \div 2)
                 /\ \E j \in PresentIn(m) :
                        /\ 2 * b = metrics[i][m] + metrics[j][m]
                        /\ IsKthSmallest(m, metrics[j][m], n \div 2 + 1)

\* the history without its i-th record
RemoveAt(ms, i) == SubSeq(ms, 1, i - 1) \o SubSeq(ms, i + 1, Len(ms))

\* the histories that differ from the present one in one record older than
\* the last 14: that record replaced by another day's readings, or removed
OlderVariants ==
    ({ [metrics EXCEPT ![i] = [r EXCEPT !.date = i]] :
           i \in 1..(Len(metrics) - 14), r \in WindowRecords } \ {metrics})
    \cup { RemoveAt(metrics, i) : i \in 1..(Len(metrics) - 14) }

\* C8: the baseline is taken over exactly the trailing min(14, N) records,
\* today's and yesterday's included: all N of them when N < 7, and for
\* N > 14 a change or removal of an older record changes neither the
\* baseline nor the decision
C8_TrailingWindow ==
    /\ BaselineComputed =>
           /\ \A m \in MetricNames :
                  IF PresentIn(m) = {} THEN result.value[m] = 0
                  ELSE IsMedianOfPresent(m, result.value[m])
           /\ \A other \in OlderVariants : calculateBaseline(other) = result
    /\ Decided =>
           \A other \in OlderVariants : determineDecisionPhase(other) = result

\* 15 records: the last 14 are split evenly, so the oldest one would move
\* the median of hrv if it were counted
C8_Witness ==
    /\ BaselineComputed
    /\ Len(metrics) = 15
    /\ metrics[1].hrv = 400
    /\ Cardinality({ i \in Trailing : metrics[i].hrv = 400 }) = 7
    /\ result.value.hrv = 800

\* C9: for each metric with a reading in the window the baseline is the
\* median of its present readings (middle element, or mean of the two
\* central ones), whatever the other metrics and the absent days are
C9_MedianOfPresent ==
    BaselineComputed =>
        \A m \in MetricNames :
            PresentIn(m) # {} => IsMedianOfPresent(m, result.value[m])

\* hrv read on 2 of 4 days (mean of 400 and 1200), load on 3 of 4 days
C9_Witness ==
    /\ BaselineComputed
    /\ Len(metrics) = 4
    /\ Cardinality(PresentIn("hrv")) = 2
    /\ result.value.hrv = 800
    /\ Cardinality(PresentIn("load")) = 3
    /\ result.value.load = 1200

\* C10: a metric without a reading in the window gets baseline 0 and the
\* other metrics still get their medians
C10_ZeroFallback ==
    BaselineComputed =>
        \A m \in MetricNames :
            PresentIn(m) = {} =>
                /\ result.value[m] = 0
                /\ \A o \in MetricNames \ {m} :
                       PresentIn(o) # {} => IsMedianOfPresent(o, result.value[o])

\* hrv never read, sleep and load read every day
C10_Witness ==
    /\ BaselineComputed
    /\ Len(metrics) = 3
    /\ PresentIn("hrv") = {}
    /\ result.value.hrv = 0
    /\ Cardinality(PresentIn("sleep")) = 3
    /\ result.value.sleep = 400
    /\ result.value.load = 400

\* a finished call of compareToBaseline
Classified == call = "compareToBaseline"

\* the percentage in force: the one passed, 5 when none is
PercentInForce == IF args.tolerancePercent = UNDEFINED THEN 5 ELSE args.tolerancePercent

\* C11: classify returns absent exactly when the value is absent, whatever
\* the baseline and the percentage; a present value gets lower, within or
\* higher
C11_AbsentIffAbsent ==
    Classified =>
        /\ result.value = NoVerdict <=> args.value = NULL
        /\ args.value # NULL => result.value \in {"lower", "within", "higher"}

\* an absent value against a baseline of 0, where null read as 0 is within
C11_Witness ==
    /\ Classified
    /\ args.value = NULL
    /\ args.baseline = 0
    /\ result.value = NoVerdict

\* C12: for a present value, a baseline >= 0 and a percentage >= 0 the
\* verdict is lower iff value < baseline - tolerance, higher iff
\* value > baseline + tolerance, within otherwise, with tolerance =
\* baseline * percent / 100; both band edges are within (times 100:
\* 100 * value against baseline * (100 -+ percent))
C12_StrictBand ==
    (Classified /\ args.value # NULL /\ args.baseline >= 0 /\ PercentInForce >= 0) =>
        LET v100 == 100 * args.value
            lower100 == args.baseline * (100 - PercentInForce)
            upper100 == args.baseline * (100 + PercentInForce)
        IN  /\ result.value = "lower" <=> v100 < lower100
            /\ result.value = "higher" <=> v100 > upper100
            /\ result.value = "within" <=> (lower100 <= v100 /\ v100 <= upper100)
            /\ (v100 = lower100 \/ v100 = upper100) => result.value = "within"

\* the lower edge of the default band: 380 against 400
C12_Witness ==
    /\ Classified
    /\ args.tolerancePercent = UNDEFINED
    /\ args.baseline = 400
    /\ args.value = 380
    /\ result.value = "within"

\* C14 as stated: with a baseline of 0 every present reading >= 0 is higher
C14_AllHigher ==
    (Classified /\ args.baseline = 0 /\ args.value # NULL /\ args.value >= 0) =>
        result.value = "higher"

\* C14 amended: with a baseline of 0 the band is the single point 0; a
\* present reading > 0 is higher and a reading of 0 is within
C14_PositiveHigher ==
    (Classified /\ args.baseline = 0 /\ args.value # NULL /\ args.value >= 0) =>
        /\ args.value > 0 => result.value = "higher"
        /\ args.value = 0 => result.value = "within"

C14_Witness ==
    /\ Classified
    /\ args.baseline = 0
    /\ args.value = 1
    /\ PercentInForce = 10
    /\ result.value = "higher"

\* C13: on the 13 records of the mock data the baseline is hrv 47, sleep 7.8,
\* load 14.0; today (38, 6.8, 17.0) and yesterday (40, 7.0, 16.5) are both
\* lower, lower, higher; the consecutive-lower count is 2 and the decision
\* is CONSIDER_ADJUSTMENT with the reason "2 recovery signals ..."
C13_MockScenario ==
    metrics = mockDailyMetrics =>
        /\ call = "calculateBaseline" =>
               result = [threw |-> FALSE,
                         value |-> [hrv |-> Tenths(470), sleep |-> Tenths(78),
                                    load |-> Tenths(140)]]
        /\ call = "determineDecisionPhase" =>
               LET b == ComputedBaseline
                   days == {Today, Yesterday}
               IN  /\ Today = DailyMetrics(13, Tenths(380), Tenths(68), Tenths(170))
                   /\ Yesterday = DailyMetrics(12, Tenths(400), Tenths(70), Tenths(165))
                   /\ \A d \in days :
                          /\ VerdictAgainst(d.hrv, b.hrv) = "lower"
                          /\ VerdictAgainst(d.sleep, b.sleep) = "lower"
                          /\ VerdictAgainst(d.load, b.load) = "higher"
                   /\ Counted("lower", b) = {"hrv", "sleep"}
                   /\ result =
                          [threw |-> FALSE,
                           value |->
                               [phase |-> "CONSIDER_ADJUSTMENT",
                                comparison |-> [hrv |-> "lower", sleep |-> "lower",
                                                load |-> "higher"],
                                reason |->
                                    "2 recovery signals have been outside baseline for 2 consecutive days."]]

C13_Witness ==
    /\ metrics = mockDailyMetrics
    /\ Decided
    /\ result.value.phase = "CONSIDER_ADJUSTMENT"

\* the metrics outside baseline b, in either direction, on both of the last
\* two days
OutsideBothDays(b) ==
    { m \in MetricNames :
        /\ VerdictAgainst(Today[m], b[m]) \in {"lower", "higher"}
        /\ VerdictAgainst(Yesterday[m], b[m]) \in {"lower", "higher"} }

C18_NoVerdictFromFallback ==
    Decided =>
        LET b == ComputedBaseline
        IN  \A m \in MetricNames :
                LET present == PresentIn(m)
                    todayVerdict == result.value.comparison[m]
                    yesterdayVerdict ==
                        compareToBaseline(Yesterday[m], b[m], DefaultTolerancePercent)
                IN  /\ present = {} =>
                           /\ b[m] = 0
                           /\ todayVerdict = NoVerdict
                           /\ yesterdayVerdict = NoVerdict
                    /\ todayVerdict # NoVerdict => Len(metrics) \in present
                    /\ yesterdayVerdict # NoVerdict => (Len(metrics) - 1) \in present
                    /\ (todayVerdict # NoVerdict \/ yesterdayVerdict # NoVerdict)
                           => IsMedianOfPresent(m, b[m])

\* hrv never read: baseline 0, no verdict, and the other two still trigger
C18_Witness ==
    /\ Decided
    /\ PresentIn("hrv") = {}
    /\ ComputedBaseline.hrv = 0
    /\ result.value.comparison.hrv = NoVerdict
    /\ result.value.comparison.sleep # NoVerdict
    /\ Len(metrics) = 4

\* the four reasons a CONSIDER_ADJUSTMENT result can carry
AdjustmentReasons ==
    { "2 recovery signals have been outside baseline for 2 consecutive days.",
      "3 recovery signals have been outside baseline for 2 consecutive days.",
      "2 load signals have been outside baseline for 2 consecutive days.",
      "3 load signals have been outside baseline for 2 consecutive days." }

\* C19: no metric is counted as both consecutive-lower and
\* consecutive-higher, the two counts add up to at most 3 and are never
\* both >= 2, and the count in a CONSIDER_ADJUSTMENT reason is 2 or 3
C19_CountsDisjoint ==
    Decided =>
        LET b == ComputedBaseline
            countedLower == Counted("lower", b)
            countedHigher == Counted("higher", b)
        IN  /\ countedLower \cap countedHigher = {}
            /\ Cardinality(countedLower) + Cardinality(countedHigher) <= 3
            /\ ~(Cardinality(countedLower) >= 2 /\ Cardinality(countedHigher) >= 2)
            /\ result.value.phase = "CONSIDER_ADJUSTMENT" =>
                   result.value.reason \in AdjustmentReasons

\* all three metrics counted, two lower and one higher
C19_Witness ==
    /\ Decided
    /\ Cardinality(Counted("lower", ComputedBaseline)) = 2
    /\ Cardinality(Counted("higher", ComputedBaseline)) = 1
    /\ result.value.reason =
           "2 recovery signals have been outside baseline for 2 consecutive days."

\* a finished call of toDailyMetrics
Converted == call = "toDailyMetrics"

\* the number of the day a date names, counted through the calendar
DayNumber(date) == (date.year * 12 + date.month) * 31 + date.day

\* the dates that appear in the recoveries, the sleeps, the workouts
RecoveryDates ==
    { formatDate(args.recoveries[i].created_at) : i \in 1..Len(args.recoveries) }

SleepDates ==
    { formatDate(args.sleeps[i].start) : i \in 1..Len(args.sleeps) }

WorkoutKeys == { args.workouts[i].date : i \in 1..Len(args.workouts) }

\* C17: toDailyMetrics returns its records in strictly ascending date order,
\* exactly one per distinct date of any input, and a metric without a
\* source record on that date is null, not zero
C17_OneRecordPerDateAscending ==
    Converted =>
        LET out == result.value
        IN  /\ \A i \in 1..(Len(out) - 1) :
                   DayNumber(out[i].date) < DayNumber(out[i + 1].date)
            /\ { out[i].date : i \in 1..Len(out) }
                   = RecoveryDates \cup SleepDates \cup WorkoutKeys
            /\ Len(out) = Cardinality(RecoveryDates \cup SleepDates \cup WorkoutKeys)
            /\ \A i \in 1..Len(out) :
                   /\ out[i].date \notin RecoveryDates => out[i].hrv = NULL
                   /\ out[i].date \notin SleepDates => out[i].sleep = NULL
                   /\ out[i].date \notin WorkoutKeys => out[i].load = NULL

\* the map meets the recovery of 1 February before the two sleeps of
\* 30 January: one record for January with only sleep, after it one for
\* February with only hrv
C17_Witness ==
    /\ Converted
    /\ RecoveryDates = {Calendar[3]}
    /\ Len(args.sleeps) = 2
    /\ SleepDates = {Calendar[1]}
    /\ WorkoutKeys = {}
    /\ result.value = << DailyMetrics(Calendar[1], NULL, Tenths(76), NULL),
                         DailyMetrics(Calendar[3], Tenths(450), NULL, NULL) >>

\* C16: calculateBaseline and determineDecisionPhase leave the caller's
\* array as it was (same records, same order, same values), and a call
\* returns or throws what every earlier call of the same function on that
\* array did
C16_Pure ==
    /\ metrics = args.before
    /\ \A i \in 1..Len(args.kept) :
           /\ \A j \in 1..Len(args.kept) :
                  args.kept[i].call = args.kept[j].call
                      => args.kept[i].result = args.kept[j].result
           /\ call = args.kept[i].call => result = args.kept[i].result

\* after two decisions on a history whose hrv readings are not in ascending
\* order, a third one has returned
C16_Witness ==
    /\ Len(args.kept) = 2
    /\ \A i \in 1..2 : args.kept[i].call = "determineDecisionPhase"
    /\ Decided
    /\ Len(metrics) = 3
    /\ metrics[1].hrv = 1200
    /\ metrics[2].hrv = NULL
    /\ metrics[3].hrv = 400
    /\ result = args.kept[1].result

====
